---- MODULE Spec2Model ----
(***************************************************************************)
(* StepFunctionsStack (lib/step_functions_stack.py): the constructs the    *)
(* stack registers, the state machine definition it wires, and the         *)
(* executions of that definition.                                          *)
(*                                                                         *)
(*   SpecBuild  StepFunctionsStack.__init__, statement by statement        *)
(*   Spec       control flow of one execution of the declared definition   *)
(*   SpecData   the same execution with the workflow document threaded     *)
(*              through the states (Parameters, ResultPath)                *)
(***************************************************************************)
EXTENDS Integers, Sequences, FiniteSets, TLC

\* ---------------------------------------------------------------- bounds
NumEnvironments == 3
NumPrefixes == 3
NumValues == 2
MaxRetryAttempts == 2

\* ------------------------------------------------ names used by the stack
None == "None"

\* The state objects of __init__, each named by the variable that holds it.

glue_raw_task == "glue_raw_task"
glue_conformed_task == "glue_conformed_task"
success_function_task == "success_function_task"
success_task == "success_task"
success_state == "success_state"
failure_function_task == "failure_function_task"
failure_notification_task == "failure_notification_task"
fail_state == "fail_state"

\* One statement of __init__ that acts on the construct tree or on the
\* state graph.  var is the Python variable the statement binds or acts on,
\* cid the construct id suffix, prefixed whether the id is
\* f'{target_environment}{logical_id_prefix}<cid>'.
Construct(line, var, class, cid, prefixed) ==
    [line |-> line, op |-> "construct", var |-> var, class |-> class,
     cid |-> cid, prefixed |-> prefixed, to |-> None]

Call(line, op, var, to) ==
    [line |-> line, op |-> op, var |-> var, class |-> None,
     cid |-> None, prefixed |-> FALSE, to |-> to]

Body ==
    << Construct(57, "vpc", "Vpc", "ImportedVpc", FALSE),
       Construct(65, "shared_security_group", "SecurityGroup", "ImportedSecurityGroup", FALSE),
       Construct(71, "raw_bucket", "Bucket", "ImportedRawBucket", FALSE),
       Construct(73, "notification_topic", "Topic", "EtlFailedTopic", TRUE),
       Construct(75, "failure_function", "Function", "EtlFailureStatusUpdate", TRUE),
       Call(89, "add_to_role_policy", "failure_function", None),
       Construct(98, "success_function", "Function", "EtlSuccessStatusUpdate", TRUE),
       Call(112, "add_to_role_policy", "success_function", None),
       Construct(122, fail_state, "Fail", "EtlFailedState", TRUE),
       Construct(128, success_state, "Succeed", "EtlSucceededState", TRUE),
       Construct(130, failure_function_task, "LambdaInvoke", "EtlFailureStatusUpdate", TRUE),
       Construct(138, failure_notification_task, "SnsPublish", "EtlFailurePublishTask", TRUE),
       Call(145, "next", failure_function_task, failure_notification_task),
       Call(146, "next", failure_notification_task, fail_state),
       Construct(148, success_function_task, "LambdaInvoke", "EtlSuccessStatusUpdate", TRUE),
       Construct(156, success_task, "SnsPublish", "EtlSuccessPublishTask", TRUE),
       Call(163, "next", success_function_task, success_task),
       Call(164, "next", success_task, success_state),
       Construct(166, glue_raw_task, "GlueStartJobRun", "GlueRawJobTask", TRUE),
       Call(182, "add_catch", glue_raw_task, failure_notification_task),
       Construct(184, glue_conformed_task, "GlueStartJobRun", "GlueConformedJobTask", TRUE),
       Call(200, "add_catch", glue_conformed_task, failure_notification_task),
       Call(203, "next", glue_conformed_task, success_task),
       Call(202, "next", glue_raw_task, glue_conformed_task),
       Construct(206, "machine", "StateMachine", "EtlStateMachine", TRUE),
       Construct(213, "trigger_function", "Function", "EtlTrigger", TRUE),
       Call(228, "add_to_role_policy", "trigger_function", None),
       Call(244, "add_to_role_policy", "trigger_function", None),
       Call(251, "add_to_role_policy", "trigger_function", None),
       Call(260, "add_event_source", "trigger_function", "raw_bucket") >>

Statements == {Body[i] : i \in DOMAIN Body}

\* ------------------------------------------------- construction (__init__)
TargetEnvironments == {"Env" \o ToString(i) : i \in 1..NumEnvironments}
LogicalIdPrefixes == {"Prefix" \o ToString(i) : i \in 1..NumPrefixes}

VARIABLES
    target_environment,   \* argument of __init__
    logical_id_prefix,    \* get_logical_id_prefix()
    stmt,                 \* index in Body of the next statement to run
    children,             \* ids of the constructs registered under the stack
    nextEdges,            \* State.next calls made so far
    catchEdges,           \* State.add_catch calls made so far
    raised                \* None, or the id whose registration raised

buildVars == <<target_environment, logical_id_prefix, stmt, children,
               nextEdges, catchEdges, raised>>

VARIABLES
    pc,          \* the state the execution is in, NotStarted or Aborted
    input,       \* the input the execution was started with
    doc,         \* the workflow document at the current state
    trace,       \* the states entered, in order
    published,   \* the subjects of the messages published to the topic
    statusLog,   \* the statuses written to the audit record, in order
    retries,     \* the retries made of the current task
    caught       \* the error the last catch edge was taken with

execVars == <<pc, input, doc, trace, published, statusLog, retries, caught>>

vars == <<buildVars, execVars>>

NoDocument == [f \in {} |-> None]

ExecutionIdle ==
    /\ pc = "NotStarted"
    /\ input = NoDocument
    /\ doc = NoDocument
    /\ trace = << >>
    /\ published = << >>
    /\ statusLog = << >>
    /\ retries = 0
    /\ caught = None

\* The id an f-string of __init__ evaluates to.
ConstructId(s, env, prefix) ==
    IF s.prefixed THEN env \o prefix \o s.cid ELSE s.cid

BuildInit ==
    /\ target_environment \in TargetEnvironments
    /\ logical_id_prefix \in LogicalIdPrefixes
    /\ stmt = 1
    /\ children = {}
    /\ nextEdges = {}
    /\ catchEdges = {}
    /\ raised = None
    /\ ExecutionIdle

\* cdk.Construct.__init__(scope=self, id): the node is added to the children
\* of the stack; an id already present there raises and __init__ is left.
RegisterConstruct ==
    /\ raised = None
    /\ stmt \in DOMAIN Body
    /\ Body[stmt].op = "construct"
    /\ LET id == ConstructId(Body[stmt], target_environment, logical_id_prefix)
       IN  IF id \in children
           THEN /\ raised' = id
                /\ UNCHANGED <<stmt, children>>
           ELSE /\ children' = children \cup {id}
                /\ stmt' = stmt + 1
                /\ UNCHANGED raised
    /\ UNCHANGED <<target_environment, logical_id_prefix, nextEdges, catchEdges>>
    /\ UNCHANGED execVars

\* A method call on an object built earlier: next and add_catch add an edge
\* to the state graph, the other calls leave the construct ids alone.
CallMethod ==
    /\ raised = None
    /\ stmt \in DOMAIN Body
    /\ Body[stmt].op # "construct"
    /\ nextEdges' = IF Body[stmt].op = "next"
                    THEN nextEdges \cup {<<Body[stmt].var, Body[stmt].to>>}
                    ELSE nextEdges
    /\ catchEdges' = IF Body[stmt].op = "add_catch"
                     THEN catchEdges \cup {<<Body[stmt].var, Body[stmt].to>>}
                     ELSE catchEdges
    /\ stmt' = stmt + 1
    /\ UNCHANGED <<target_environment, logical_id_prefix, children, raised>>
    /\ UNCHANGED execVars

\* ------------------------------------------- the declared state machine
StateClasses == {"GlueStartJobRun", "LambdaInvoke", "SnsPublish", "Fail", "Succeed"}
TaskClasses == {"GlueStartJobRun", "LambdaInvoke", "SnsPublish"}

StateObjects == {s.var : s \in {t \in Statements : t.class \in StateClasses}}

StateClass(s) == (CHOOSE t \in Statements : t.op = "construct" /\ t.var = s).class

DeclaredNext_SuccessToFailurePublish ==
    {<<s.var, IF s.var = success_task THEN failure_notification_task ELSE s.to>> :
        s \in {t \in Statements : t.op = "next"}}

\* The edges the next calls of __init__ declare (lines 145-164, 202-203).
DeclaredNext == {<<s.var, s.to>> : s \in {t \in Statements : t.op = "next"}}

DeclaredCatch_RawOnly ==
    {<<s.var, s.to>> : s \in {t \in Statements : t.op = "add_catch" /\ t.var = glue_raw_task}}

\* The edges the add_catch calls of __init__ declare (lines 182, 200).
DeclaredCatch == {<<s.var, s.to>> : s \in {t \in Statements : t.op = "add_catch"}}

NextOf(s) == {e[2] : e \in {d \in DeclaredNext : d[1] = s}}
CatchOf(s) == {e[2] : e \in {d \in DeclaredCatch : d[1] = s}}

StartState_Conformed == glue_conformed_task

\* machine_definition = glue_raw_task.next(...): the chain starts at the
\* state next was called on, and StateMachine takes its start state.
StartState == glue_raw_task

Subject_Unswapped(s) ==
    IF s = failure_notification_task THEN "Job Failed"
    ELSE IF s = success_task THEN "Job Completed"
    ELSE None

\* subject= of the two SnsPublish tasks.
Subject(s) ==
    IF s = failure_notification_task THEN "Job Completed"
    ELSE IF s = success_task THEN "Job Failed"
    ELSE None

RetryOnServiceExceptions_AllTasks(s) == StateClass(s) \in TaskClasses

\* retry_on_service_exceptions=True is passed to the two LambdaInvoke tasks;
\* no other task is given a retry.
RetryOnServiceExceptions(s) == s \in {failure_function_task, success_function_task}

\* result_path= of a task; a task built without it replaces the document.
ResultPath(s) ==
    IF s \in {failure_function_task, success_function_task} THEN "$.taskresult" ELSE "$"

\* result_path= of the two add_catch calls.
CatchResultPath == "$.taskresult"

InputFields ==
    {"source_key", "source_system_name", "table_name", "source_bucketname",
     "base_file_name", "p_year", "p_month", "p_day"}

\* The '$.<field>' paths under arguments= of a Glue task.
Arguments(s) == IF StateClass(s) = "GlueStartJobRun" THEN InputFields ELSE {}

\* The status the Lambda function behind a LambdaInvoke task writes to the
\* audit record.
StatusWritten(s) ==
    IF s = failure_function_task THEN "failure"
    ELSE IF s = success_function_task THEN "success"
    ELSE None

\* --------------------------------------------------------- one execution
FieldValues == {"v" \o ToString(i) : i \in 1..NumValues}

\* The start input the trigger function passes: the eight fields.
Inputs == [InputFields -> FieldValues]

ServiceException == "ServiceException"
TaskFailed == "States.TaskFailed"
Errors == {ServiceException, TaskFailed}

TaskStates == {s \in StateObjects : StateClass(s) \in TaskClasses}
TerminalStates == {s \in StateObjects : StateClass(s) \in {"Fail", "Succeed"}}

\* What a task returns to the engine.
TaskResult(s) ==
    IF StateClass(s) = "GlueStartJobRun" THEN [f \in {"JobRunId"} |-> "jr"]
    ELSE IF StateClass(s) = "SnsPublish" THEN [f \in {"MessageId"} |-> "m"]
    ELSE [f \in {"StatusCode"} |-> "200"]

\* ResultPath: '$' replaces the document by the result, '$.taskresult' puts
\* the result under that key and keeps the rest.
ApplyResultPath(d, path, result) ==
    IF path = "$" THEN result
    ELSE [f \in DOMAIN d \cup {"taskresult"} |->
            IF f = "taskresult" THEN result ELSE d[f]]

\* The Parameters of a task can be built when every path exists.
ParametersResolve(s, d) == Arguments(s) \subseteq DOMAIN d

BuildIdle ==
    /\ target_environment = "Env1"
    /\ logical_id_prefix = "Prefix1"
    /\ stmt = 1
    /\ children = {}
    /\ nextEdges = {}
    /\ catchEdges = {}
    /\ raised = None

Init ==
    /\ BuildIdle
    /\ ExecutionIdle

\* StartExecution on the state machine: the start state is entered.
StartExecution(inp) ==
    /\ pc = "NotStarted"
    /\ pc' = StartState
    /\ input' = inp
    /\ trace' = <<StartState>>
    /\ UNCHANGED <<published, statusLog, retries, caught>>

\* The task of the current state succeeds: its effect happens, and the
\* execution moves along the next edge.
TaskSucceeds ==
    /\ pc \in TaskStates
    /\ published' = IF StateClass(pc) = "SnsPublish"
                    THEN Append(published, Subject(pc)) ELSE published
    /\ statusLog' = IF StateClass(pc) = "LambdaInvoke"
                    THEN Append(statusLog, StatusWritten(pc)) ELSE statusLog
    /\ \E t \in NextOf(pc) :
          /\ pc' = t
          /\ trace' = Append(trace, t)
    /\ retries' = 0
    /\ UNCHANGED <<input, caught>>

\* The task of the current state fails with err: it is retried when the task
\* has a retry for err and attempts are left, else the catch edge is taken,
\* else the execution ends on the unhandled error.
TaskFails(err) ==
    /\ pc \in TaskStates
    /\ IF err = ServiceException /\ RetryOnServiceExceptions(pc)
          /\ retries < MaxRetryAttempts
       THEN /\ retries' = retries + 1
            /\ UNCHANGED <<pc, trace, caught>>
       ELSE IF CatchOf(pc) # {}
       THEN /\ \E t \in CatchOf(pc) :
                  /\ pc' = t
                  /\ trace' = Append(trace, t)
            /\ caught' = err
            /\ retries' = 0
       ELSE /\ pc' = "Aborted"
            /\ UNCHANGED <<trace, caught, retries>>
    /\ UNCHANGED <<input, published, statusLog>>

Start ==
    /\ \E inp \in Inputs : StartExecution(inp)
    /\ UNCHANGED <<doc, buildVars>>

Succeed ==
    /\ TaskSucceeds
    /\ UNCHANGED <<doc, buildVars>>

Fail ==
    /\ \E err \in Errors : TaskFails(err)
    /\ UNCHANGED <<doc, buildVars>>

Next == Start \/ Succeed \/ Fail

Spec == Init /\ [][Next]_vars

\* ------------------------------------------ the execution with its document
DataStart ==
    /\ \E inp \in Inputs :
          /\ StartExecution(inp)
          /\ doc' = inp
    /\ UNCHANGED buildVars

DataSucceed ==
    /\ pc \in TaskStates
    /\ ParametersResolve(pc, doc)
    /\ TaskSucceeds
    /\ doc' = ApplyResultPath(doc, ResultPath(pc), TaskResult(pc))
    /\ UNCHANGED buildVars

DataFail ==
    /\ pc \in TaskStates
    /\ ParametersResolve(pc, doc)
    /\ \E err \in Errors :
          /\ TaskFails(err)
          /\ doc' = IF pc' \in CatchOf(pc)
                    THEN ApplyResultPath(doc, CatchResultPath, err)
                    ELSE doc
    /\ UNCHANGED buildVars

\* A path of the Parameters is missing from the document: the task is not
\* run.  The engine reports the error either as one States.ALL matches, and
\* the catch edge is taken, or as a runtime error no catch matches, and the
\* execution ends.
DataParameterFailure ==
    /\ pc \in TaskStates
    /\ ~ParametersResolve(pc, doc)
    /\ \/ /\ \E t \in CatchOf(pc) :
                /\ pc' = t
                /\ trace' = Append(trace, t)
          /\ caught' = "States.ParameterPathFailure"
          /\ doc' = ApplyResultPath(doc, CatchResultPath, "States.ParameterPathFailure")
       \/ /\ pc' = "Aborted"
          /\ UNCHANGED <<trace, caught, doc>>
    /\ UNCHANGED <<input, published, statusLog, retries, buildVars>>

NextData == DataStart \/ DataSucceed \/ DataFail \/ DataParameterFailure

SpecData == Init /\ [][NextData]_vars

\* ---------------------------------------------------- the construction
NextBuild == RegisterConstruct \/ CallMethod

SpecBuild == BuildInit /\ [][NextBuild]_vars

\* ================================================================ claims
GlueTasks == {s \in StateObjects : StateClass(s) = "GlueStartJobRun"}
FailurePath == {failure_notification_task, fail_state}

C2_StatusSetOnce ==
    pc \in TerminalStates =>
        statusLog = << IF pc = success_state THEN "success" ELSE "failure" >>

\* C3: an execution that reaches the Succeed state has entered the raw job,
\* the conformed job, the success status update, the success publish and the
\* Succeed state, in that order.
C3_SuccessPathOrder ==
    pc = success_state =>
        trace = <<glue_raw_task, glue_conformed_task, success_function_task,
                  success_task, success_state>>

\* C4: a caught job failure is routed to the failure status update, and the
\* Fail state is reached only through status update, then publish.
C4_FailureStatusUpdateRuns ==
    /\ caught # None =>
          \E i \in DOMAIN trace :
              /\ trace[i] \in GlueTasks
              /\ i + 1 \in DOMAIN trace
              /\ trace[i + 1] = failure_function_task
    /\ pc = fail_state =>
          /\ Len(trace) >= 3
          /\ trace[Len(trace) - 2] = failure_function_task
          /\ trace[Len(trace) - 1] = failure_notification_task

\* C5: when the conformed job task is entered, each of the eight input
\* fields is in the document with the value the execution was started with.
C5_InputFieldsPreserved ==
    pc = glue_conformed_task =>
        \A f \in InputFields : f \in DOMAIN doc /\ doc[f] = input[f]

C7_ExactlyOneNotification ==
    pc \in TerminalStates => Len(published) = 1

C7_Witness ==
    /\ pc = fail_state
    /\ Len(published) = 1
    /\ trace = <<glue_raw_task, glue_conformed_task, failure_notification_task,
                 fail_state>>

\* C8: the raw job task is the first state entered; the conformed job task
\* is entered only from the raw job task, by its success; no state has more
\* than one successor on its next edge, and none is a Parallel or Map state.
C8_Sequential ==
    /\ [](/\ trace # << >> => trace[1] = glue_raw_task
          /\ \A i \in DOMAIN trace :
                trace[i] = glue_conformed_task =>
                    i = 2 /\ trace[1] = glue_raw_task
          /\ pc \in StateObjects =>
                /\ Cardinality(NextOf(pc)) <= 1
                /\ StateClass(pc) \notin {"Parallel", "Map"})
    /\ [][(pc' = glue_conformed_task /\ pc # glue_conformed_task) =>
             (pc = glue_raw_task /\ caught' = None /\ published' = << >>)]_vars

C8_Witness ==
    /\ pc = glue_conformed_task
    /\ trace = <<glue_raw_task, glue_conformed_task>>
    /\ caught = None

\* C9: every message published by an execution that is at the Succeed state
\* has the subject "Job Failed", and every message published by one that is
\* at the Fail state has the subject "Job Completed".
C9_SubjectsSwapped ==
    /\ pc = success_state =>
          \A i \in DOMAIN published : published[i] = "Job Failed"
    /\ pc = fail_state =>
          \A i \in DOMAIN published : published[i] = "Job Completed"

C9_Witness ==
    /\ pc = success_state
    /\ published = <<"Job Failed">>

\* C10: no registration raises, and the id of the construct about to be
\* registered is not among the ids registered under the stack.
C10_NoDuplicateId ==
    /\ raised = None
    /\ (stmt \in DOMAIN Body /\ Body[stmt].op = "construct") =>
          ConstructId(Body[stmt], target_environment, logical_id_prefix)
              \notin children
====
